---------------------------- MODULE Spec2Model ----------------------------
(***************************************************************************)
(* A model of sanic_githubapp/core.py: the GitHubApp webhook endpoint.     *)
(*                                                                         *)
(*   on(event_action)(f)     registers f in self._hook_mappings            *)
(*   _flask_view_func        extracts event/action, verifies the           *)
(*                           signature, collects and calls the handlers    *)
(*   _verify_webhook         HMAC-SHA1 check of X-Hub-Signature            *)
(*                                                                         *)
(* Header values are sequences of one-character strings, so that           *)
(* str.split('=') is computed.  HMAC-SHA1 is idealised as an injective     *)
(* function of (key, message) rendered as lowercase hex digits.            *)
(***************************************************************************)
EXTENDS Integers, Sequences, FiniteSets, TLC

VARIABLES
    app,             \* the application: how init_app ended, the routes it holds
    config,          \* app.config: the GITHUBAPP_* settings
    hook_mappings,   \* self._hook_mappings: event_action -> list of functions
    reg_log,         \* history: the on(key)(f) calls made so far, in call order
    requests,        \* one activation of _flask_view_func per slot
    threads          \* one activation of on(...)(f) per registering thread

vars == <<app, config, hook_mappings, reg_log, requests, threads>>

----------------------------------------------------------------------------
(* Bounds of the model *)

\* on(key)(f) calls in the sequential specification
MaxRegs == 3
\* on(key)(f) calls in the specifications with two concurrent activations
MaxRegsConc == 2

----------------------------------------------------------------------------
(* The values the environment provides *)

Slots == {"r1", "r2"}
Threads == {"t1", "t2"}
Handlers == {"h1", "h2"}
Keys == {"issues", "issues.opened", "issues."}

None == "<None>"

EventHeader == "X-GitHub-Event"
SignatureHeader == "X-Hub-Signature"

BodyOpened == "{\"action\":\"opened\"}"
BodyNoAction == "{}"
BodyEmptyAction == "{\"action\":\"\"}"
BodyNullAction == "{\"action\":null}"
BodyArray == "[]"
Bodies == {BodyOpened, BodyNoAction, BodyEmptyAction, BodyNullAction, BodyArray}

StrSecret(v) == [type |-> "str", value |-> v]
BytesSecret(v) == [type |-> "bytes", value |-> v]
Secrets == {StrSecret("topsecret"), BytesSecret("topsecret"), StrSecret("other")}

HexDigits == <<"0", "1", "2", "3", "4", "5", "6", "7",
               "8", "9", "a", "b", "c", "d", "e", "f">>
\* one character outside ASCII, as a header decoded by the server may hold
NonAsciiChar == "U+00E9"
AsciiChars == {HexDigits[i] : i \in DOMAIN HexDigits}
                  \cup {"s", "h", "m", "d", "=", "x", "A", "B", "C", "D", "E", "F"}

----------------------------------------------------------------------------
(* Library functions the code calls *)

\* request.json: the parsed body
ParseJson(body) ==
    CASE body = BodyOpened      -> [type |-> "dict", value |-> [action |-> "opened"]]
      [] body = BodyNoAction    -> [type |-> "dict", value |-> <<>>]
      [] body = BodyEmptyAction -> [type |-> "dict", value |-> [action |-> ""]]
      [] body = BodyNullAction  -> [type |-> "dict", value |-> [action |-> None]]
      [] body = BodyArray       -> [type |-> "list", value |-> <<>>]

\* dict.get(key)
DictGet(d, key) == IF key \in DOMAIN d THEN d[key] ELSE None

\* the truth value Python gives a str-or-None
Truthy(v) == v # None /\ v # ""

\* str.split(sep): the fields between the separators
RECURSIVE SplitFrom(_, _, _, _)
SplitFrom(s, sep, i, field) ==
    IF i > Len(s) THEN <<field>>
    ELSE IF s[i] = sep THEN <<field>> \o SplitFrom(s, sep, i + 1, <<>>)
    ELSE SplitFrom(s, sep, i + 1, Append(field, s[i]))

Split(s, sep) == SplitFrom(s, sep, 1, <<>>)

\* '.'.join([event, action])
JoinDot(event, action) == event \o "." \o action

KeyCode(key) == CASE key = "topsecret" -> 1 [] key = "other" -> 2

MsgCode(msg) ==
    CASE msg = BodyOpened      -> 10
      [] msg = BodyNoAction    -> 11
      [] msg = BodyEmptyAction -> 12
      [] msg = BodyNullAction  -> 13
      [] msg = BodyArray       -> 14

\* hmac.new(key, msg, 'sha1').hexdigest(): injective in (key, msg), lowercase hex
HexDigest(key, msg) ==
    LET n == KeyCode(key.value) * 16 + MsgCode(msg)
    IN  <<HexDigits[(n \div 16) + 1], HexDigits[(n % 16) + 1]>>

IsAscii(s) == \A i \in DOMAIN s : s[i] \in AsciiChars

----------------------------------------------------------------------------
(* GitHubApp.secret *)

secret(cfg) ==
    IF cfg.GITHUBAPP_SECRET.type = "str"
    THEN BytesSecret(cfg.GITHUBAPP_SECRET.value)
    ELSE cfg.GITHUBAPP_SECRET

(* GitHubApp._verify_webhook: "ok" when it returns, else what it raises *)

\* compares the field before the first '=' instead of the one after it
VerifyFirstField(cfg, headers, body) ==
    IF SignatureHeader \notin DOMAIN headers THEN "KeyError"
    ELSE LET parts == Split(headers[SignatureHeader], "=")
             signature == parts[1]
         IN  IF ~IsAscii(signature) THEN "TypeError"
             ELSE IF HexDigest(secret(cfg), body) = signature THEN "ok"
             ELSE "abort400"

\* rejects a header whose field before the first '=' is not "sha1"
VerifyChecksScheme(cfg, headers, body) ==
    IF SignatureHeader \notin DOMAIN headers THEN "KeyError"
    ELSE LET parts == Split(headers[SignatureHeader], "=")
         IN  IF Len(parts) < 2 THEN "IndexError"
             ELSE LET signature == parts[2]
                      mac == HexDigest(secret(cfg), body)
                  IN  IF parts[1] # <<"s", "h", "a", "1">> THEN "abort400"
                      ELSE IF ~IsAscii(signature) THEN "TypeError"
                      ELSE IF mac = signature THEN "ok"
                      ELSE "abort400"

_verify_webhook(cfg, headers, body) ==
    IF SignatureHeader \notin DOMAIN headers THEN "KeyError"
    ELSE LET parts == Split(headers[SignatureHeader], "=")
         IN  IF Len(parts) < 2 THEN "IndexError"
             ELSE LET signature == parts[2]
                      mac == HexDigest(secret(cfg), body)
                  IN  IF ~IsAscii(signature) THEN "TypeError"
                      ELSE IF mac = signature THEN "ok"
                      ELSE "abort400"

----------------------------------------------------------------------------
(* GitHubApp.init_app *)

\* not app.config.get(setting): the setting is absent, or 0, or empty
NotSet(cfg, setting) ==
    \/ setting \notin DOMAIN cfg
    \/ setting = "GITHUBAPP_ID" /\ cfg[setting] = 0
    \/ setting = "GITHUBAPP_KEY" /\ cfg[setting] = ""
    \/ setting = "GITHUBAPP_SECRET" /\ cfg[setting].value = ""

\* checks the id and the key only
required_settings_no_secret == <<"GITHUBAPP_ID", "GITHUBAPP_KEY">>

\* line 61
required_settings == <<"GITHUBAPP_ID", "GITHUBAPP_KEY", "GITHUBAPP_SECRET">>

\* app.config.get('GITHUBAPP_ROUTE', '/')
RouteUri(cfg) == IF "GITHUBAPP_ROUTE" \in DOMAIN cfg THEN cfg["GITHUBAPP_ROUTE"] ELSE "/"

NewApp == [init |-> "new", routes |-> {}]

\* lines 60-68: the first setting that is not set raises; else the route is added
init_app(cfg) ==
    IF \E j \in DOMAIN required_settings : NotSet(cfg, required_settings[j])
    THEN [init |-> "RuntimeError", routes |-> {}]
    ELSE [init |-> "ok",
          routes |-> {[uri |-> RouteUri(cfg), handler |-> "_flask_view_func",
                       methods |-> {"POST"}]}]

InitApp ==
    /\ app.init = "new"
    /\ app' = init_app(config)
    /\ UNCHANGED <<config, hook_mappings, reg_log, requests, threads>>

\* the settings of an application that init_app accepts
GoodConfig(s) == [GITHUBAPP_ID |-> 1, GITHUBAPP_KEY |-> "key", GITHUBAPP_SECRET |-> s]

----------------------------------------------------------------------------
(* GitHubApp.on: the decorator's effect on self._hook_mappings *)

Extend(m, k, v) == [x \in DOMAIN m \cup {k} |-> IF x = k THEN v ELSE m[x]]

\* stores [f] whether or not the key is present
OnDecoratorOverwrite(m, event_action, f) == Extend(m, event_action, <<f>>)

\* a function already in the key's list is not added again
OnDecoratorDedup(m, event_action, f) ==
    IF event_action \notin DOMAIN m
    THEN Extend(m, event_action, <<f>>)
    ELSE IF \E j \in DOMAIN m[event_action] : m[event_action][j] = f
         THEN m
         ELSE [m EXCEPT ![event_action] = Append(@, f)]

OnDecorator(m, event_action, f) ==
    IF event_action \notin DOMAIN m
    THEN Extend(m, event_action, <<f>>)
    ELSE [m EXCEPT ![event_action] = Append(@, f)]

Register(event_action, f) ==
    /\ hook_mappings' = OnDecorator(hook_mappings, event_action, f)
    /\ reg_log' = Append(reg_log, <<event_action, f>>)
    /\ UNCHANGED <<app, config, requests, threads>>

----------------------------------------------------------------------------
(* One request: an activation of _flask_view_func *)

NoResponse == [status |-> 0, body |-> ""]

NoRequest ==
    [pc |-> "idle", headers |-> <<>>, body |-> "", event |-> None,
     action |-> None, functions_to_call |-> <<>>, i |-> 0, called |-> <<>>,
     exc |-> "", warnings |-> 0, response |-> NoResponse]

\* the header map of a request; an absent header is an absent key
MkHeaders(ev, sig) ==
    [h \in {EventHeader : x \in ev} \cup {SignatureHeader : x \in sig} |->
        IF h = EventHeader THEN CHOOSE x \in ev : TRUE
        ELSE CHOOSE x \in sig : TRUE]

\* the server calls the view function with a new request
Receive(r, headers, body) ==
    /\ requests[r].pc = "idle"
    /\ requests' = [requests EXCEPT ![r] =
            [NoRequest EXCEPT !.pc = "received", !.headers = headers, !.body = body]]
    /\ UNCHANGED <<app, config, hook_mappings, reg_log, threads>>

\* what the server answers when the view function raises
ErrorResponse(exc) ==
    IF exc = "abort400" THEN [status |-> 400, body |-> ""]
    ELSE [status |-> 500, body |-> ""]

Raised(req, exc) ==
    [req EXCEPT !.pc = "done", !.exc = exc, !.response = ErrorResponse(exc)]

\* event = request.headers.get('X-GitHub-Event'): None when the header is absent
ExtractGet(r) ==
    LET req == requests[r] IN
    /\ req.pc = "received"
    /\ requests' = [requests EXCEPT ![r] =
            IF ParseJson(req.body).type # "dict" THEN Raised(req, "AttributeError")
            ELSE [req EXCEPT !.pc = "verifying",
                             !.functions_to_call = <<>>,
                             !.event = IF EventHeader \in DOMAIN req.headers
                                       THEN req.headers[EventHeader] ELSE None,
                             !.action = DictGet(ParseJson(req.body).value, "action")]]
    /\ UNCHANGED <<app, config, hook_mappings, reg_log, threads>>

\* lines 157-159
Extract(r) ==
    LET req == requests[r] IN
    /\ req.pc = "received"
    /\ requests' = [requests EXCEPT ![r] =
            IF EventHeader \notin DOMAIN req.headers THEN Raised(req, "KeyError")
            ELSE IF ParseJson(req.body).type # "dict" THEN Raised(req, "AttributeError")
            ELSE [req EXCEPT !.pc = "verifying",
                             !.functions_to_call = <<>>,
                             !.event = req.headers[EventHeader],
                             !.action = DictGet(ParseJson(req.body).value, "action")]]
    /\ UNCHANGED <<app, config, hook_mappings, reg_log, threads>>

\* line 161
Verify(r) ==
    LET req == requests[r]
        res == _verify_webhook(config, req.headers, req.body)
    IN
    /\ req.pc = "verifying"
    /\ requests' = [requests EXCEPT ![r] =
            IF res = "ok" THEN [req EXCEPT !.pc = "lookup_event"]
            ELSE IF res = "abort400"
                 THEN [Raised(req, res) EXCEPT !.warnings = req.warnings + 1]
            ELSE Raised(req, res)]
    /\ UNCHANGED <<app, config, hook_mappings, reg_log, threads>>

\* functions_to_call = self._hook_mappings[key]: the list is replaced
ExtendReplacing(functions_to_call, m, key) ==
    IF key \in DOMAIN m THEN m[key] ELSE functions_to_call

\* functions_to_call += self._hook_mappings[key], when key is in the mapping
ExtendFromMapping(functions_to_call, m, key) ==
    IF key \in DOMAIN m THEN functions_to_call \o m[key] ELSE functions_to_call

\* functions_to_call kept on the instance, shared by all activations
LookupEventShared(r) ==
    LET req == requests[r]
        new == ExtendFromMapping(<<>>, hook_mappings, req.event)
    IN
    /\ req.pc = "lookup_event"
    /\ requests' = [s \in Slots |->
            IF s = r THEN [req EXCEPT !.pc = "lookup_action", !.functions_to_call = new]
            ELSE IF requests[s].pc \in {"lookup_action", "loop", "in_handler"}
                 THEN [requests[s] EXCEPT !.functions_to_call = new]
            ELSE requests[s]]
    /\ UNCHANGED <<app, config, hook_mappings, reg_log, threads>>

\* lines 163-164
LookupEvent(r) ==
    LET req == requests[r] IN
    /\ req.pc = "lookup_event"
    /\ requests' = [requests EXCEPT ![r] =
            [req EXCEPT !.pc = "lookup_action",
                        !.functions_to_call =
                            ExtendFromMapping(@, hook_mappings, req.event)]]
    /\ UNCHANGED <<app, config, hook_mappings, reg_log, threads>>

\* if action is not None
ActionGivenNotNone(action) == action # None

\* line 166: if action
ActionGiven(action) == Truthy(action)

\* functions_to_call aliases the mapping's own list, and += extends it in place
LookupActionAliased(r) ==
    LET req == requests[r]
        key == JoinDot(req.event, req.action)
        found == ActionGiven(req.action) /\ key \in DOMAIN hook_mappings
        extended == IF found THEN req.functions_to_call \o hook_mappings[key]
                    ELSE req.functions_to_call
    IN
    /\ req.pc = "lookup_action"
    /\ requests' = [requests EXCEPT ![r] =
            [req EXCEPT !.pc = "loop", !.i = 1, !.functions_to_call = extended]]
    /\ hook_mappings' =
            IF found /\ req.event \in DOMAIN hook_mappings
            THEN [hook_mappings EXCEPT ![req.event] = extended]
            ELSE hook_mappings
    /\ UNCHANGED <<app, config, reg_log, threads>>

\* lines 166-169
LookupAction(r) ==
    LET req == requests[r] IN
    /\ req.pc = "lookup_action"
    /\ requests' = [requests EXCEPT ![r] =
            [req EXCEPT !.pc = "loop", !.i = 1,
                        !.functions_to_call =
                            IF ActionGiven(req.action)
                            THEN ExtendFromMapping(@, hook_mappings,
                                                   JoinDot(req.event, req.action))
                            ELSE @]]
    /\ UNCHANGED <<app, config, hook_mappings, reg_log, threads>>

\* function(request) is started and the loop goes on without waiting for it
CallHandlerDetached(r) ==
    LET req == requests[r] IN
    /\ req.pc = "loop"
    /\ req.i <= Len(req.functions_to_call)
    /\ requests' = [requests EXCEPT ![r] =
            [req EXCEPT !.i = @ + 1,
                        !.called = Append(@, [function |-> req.functions_to_call[req.i],
                                              request |-> r])]]
    /\ UNCHANGED <<app, config, hook_mappings, reg_log, threads>>

\* line 173: function(request) is entered
CallHandler(r) ==
    LET req == requests[r] IN
    /\ req.pc = "loop"
    /\ req.i <= Len(req.functions_to_call)
    /\ requests' = [requests EXCEPT ![r] =
            [req EXCEPT !.pc = "in_handler",
                        !.called = Append(@, [function |-> req.functions_to_call[req.i],
                                              request |-> r])]]
    /\ UNCHANGED <<app, config, hook_mappings, reg_log, threads>>

\* line 173: function(request) returns
HandlerReturns(r) ==
    LET req == requests[r] IN
    /\ req.pc = "in_handler"
    /\ requests' = [requests EXCEPT ![r] = [req EXCEPT !.pc = "loop", !.i = @ + 1]]
    /\ UNCHANGED <<app, config, hook_mappings, reg_log, threads>>

\* the loop catches what function(request) raises, notes it and goes on
HandlerRaisesCaught(r) ==
    LET req == requests[r] IN
    /\ req.pc = "in_handler"
    /\ requests' = [requests EXCEPT ![r] =
            [req EXCEPT !.pc = "loop", !.i = @ + 1, !.exc = "HandlerError"]]
    /\ UNCHANGED <<app, config, hook_mappings, reg_log, threads>>

\* line 173: function(request) raises; nothing catches it
HandlerRaises(r) ==
    LET req == requests[r] IN
    /\ req.pc = "in_handler"
    /\ requests' = [requests EXCEPT ![r] = Raised(req, "HandlerError")]
    /\ UNCHANGED <<app, config, hook_mappings, reg_log, threads>>

OkResponse == [status |-> 200, body |-> "OK"]

\* answers 404 when no handler matched
RespondNotFound(r) ==
    LET req == requests[r] IN
    /\ req.pc = "loop"
    /\ req.i > Len(req.functions_to_call)
    /\ requests' = [requests EXCEPT ![r] =
            [req EXCEPT !.pc = "done",
                        !.response = IF req.functions_to_call = <<>>
                                     THEN [status |-> 404, body |-> ""]
                                     ELSE OkResponse]]
    /\ UNCHANGED <<app, config, hook_mappings, reg_log, threads>>

\* line 174
Respond(r) ==
    LET req == requests[r] IN
    /\ req.pc = "loop"
    /\ req.i > Len(req.functions_to_call)
    /\ requests' = [requests EXCEPT ![r] =
            [req EXCEPT !.pc = "done", !.response = OkResponse]]
    /\ UNCHANGED <<app, config, hook_mappings, reg_log, threads>>

\* the request object is dropped once the response is out
Discard(r) ==
    /\ requests[r].pc = "done"
    /\ requests' = [requests EXCEPT ![r] = NoRequest]
    /\ UNCHANGED <<app, config, hook_mappings, reg_log, threads>>

Step(r) ==
    \/ Extract(r)
    \/ Verify(r)
    \/ LookupEvent(r)
    \/ LookupAction(r)
    \/ CallHandler(r)
    \/ HandlerReturns(r)
    \/ HandlerRaises(r)
    \/ Respond(r)

----------------------------------------------------------------------------
(* The sequential program: the server runs one view function at a time,    *)
(* and registrations happen between requests.                              *)

\* the X-GitHub-Event header: absent, an event with handlers, events without,
\* and a value that holds the separator
EventOptions == {{}, {"issues"}, {"push"}, {"Issues"}, {"issues.opened"}}

Sig(prefix, digest) == prefix \o <<"=">> \o digest

OtherBody(body) == IF body = BodyOpened THEN BodyNoAction ELSE BodyOpened

\* headers a client may send with body: none, no '=', the right digest,
\* the digest of another body, a digest that is not ASCII
SigOptions(cfg, body) ==
    { {},
      {<<"s", "h", "a", "1">>},
      {Sig(<<"s", "h", "a", "1">>, HexDigest(secret(cfg), body))},
      {Sig(<<"s", "h", "a", "1">>, HexDigest(secret(cfg), OtherBody(body)))},
      {Sig(<<"s", "h", "a", "1">>, <<NonAsciiChar, "1">>)} }

Quiet == \A r \in Slots : requests[r].pc = "idle"

Init ==
    /\ config = GoodConfig(StrSecret("topsecret"))
    /\ app = init_app(config)
    /\ hook_mappings = <<>>
    /\ reg_log = <<>>
    /\ requests = [r \in Slots |-> NoRequest]
    /\ threads = [t \in Threads |-> [pc |-> "idle", event_action |-> None, f |-> None]]

Next ==
    \/ /\ Quiet
       /\ Len(reg_log) < MaxRegs
       /\ \E k \in Keys, f \in Handlers : Register(k, f)
    \/ /\ Quiet
       /\ \E r \in Slots, ev \in EventOptions, body \in Bodies :
            \E sig \in SigOptions(config, body) :
                Receive(r, MkHeaders(ev, sig), body)
    \/ \E r \in Slots : Step(r)
    \/ \E r \in Slots : Discard(r)

Spec == Init /\ [][Next]_vars

----------------------------------------------------------------------------
(* Vocabulary of the properties *)

Delivered == {r \in Slots : requests[r].pc # "idle"}

\* lookup(key): the handlers registered under key, none when the key is absent
TableList(k) == IF k \in DOMAIN hook_mappings THEN hook_mappings[k] ELSE <<>>

HasDigest(req) ==
    /\ SignatureHeader \in DOMAIN req.headers
    /\ Len(Split(req.headers[SignatureHeader], "=")) >= 2

DigestPart(req) == Split(req.headers[SignatureHeader], "=")[2]

TrueDigest(req) == HexDigest(secret(config), req.body)

DigestMismatch(req) == HasDigest(req) /\ DigestPart(req) # TrueDigest(req)

DigestMatches(req) == HasDigest(req) /\ DigestPart(req) = TrueDigest(req)

\* the request gets as far as line 161
ReachesVerification(req) ==
    /\ EventHeader \in DOMAIN req.headers
    /\ ParseJson(req.body).type = "dict"

\* the request got past line 161
Dispatched(req) ==
    \/ req.pc \in {"lookup_event", "lookup_action", "loop", "in_handler"}
    \/ req.pc = "done" /\ req.exc \in {"", "HandlerError"}

\* both lookups of the request are made
Collected(req) ==
    \/ req.pc \in {"loop", "in_handler"}
    \/ req.pc = "done" /\ req.exc \in {"", "HandlerError"}

CalledFunctions(req) == [j \in 1..Len(req.called) |-> req.called[j].function]

IsPrefix(a, b) == Len(a) <= Len(b) /\ \A j \in 1..Len(a) : a[j] = b[j]

\* the handlers of the bare key, then those of the compound key
Expected(req) ==
    TableList(req.event) \o
        (IF Truthy(req.action) THEN TableList(JoinDot(req.event, req.action)) ELSE <<>>)

Completed(req) == req.pc = "done" /\ req.exc = ""

----------------------------------------------------------------------------
(* C1: a request whose X-Hub-Signature digest differs from the HMAC of    *)
(* its body is answered 400 and none of its handlers runs; a request with *)
(* an invoked handler carries the matching digest.                        *)

\* C1 on the requests that reach line 161 (they have the X-GitHub-Event
\* header and a JSON object as body): a mismatching digest is answered 400 and
\* no handler runs, and an invoked handler implies a matching digest
C1_Claim ==
    \A r \in Delivered :
        LET req == requests[r] IN
        /\ (DigestMismatch(req) /\ ReachesVerification(req)) =>
              /\ req.called = <<>>
              /\ req.pc = "done" => req.response.status = 400
        /\ req.called # <<>> => DigestMatches(req)

\* What the code does give of C1: no request with a mismatching digest gets
\* past line 161 or has a handler invoked, an invoked handler implies the
\* matching digest, and the answer is 400 when the request reaches line 161
\* and the digest is ASCII
C1_MismatchNeverDispatched ==
    \A r \in Delivered :
        LET req == requests[r] IN
        /\ DigestMismatch(req) =>
              /\ req.called = <<>>
              /\ ~Dispatched(req)
              /\ (req.pc = "done" /\ ReachesVerification(req) /\ IsAscii(DigestPart(req)))
                    => req.response.status = 400 /\ req.exc = "abort400"
        /\ req.called # <<>> => DigestMatches(req)

C1_Witness ==
    \E r \in Delivered :
        LET req == requests[r] IN
        /\ req.pc = "done"
        /\ DigestMismatch(req)
        /\ ReachesVerification(req)
        /\ req.response.status = 400
        /\ TableList(req.event) # <<>>

----------------------------------------------------------------------------
(* C2: for a verified request with event E and non-empty action A the     *)
(* handlers invoked are those under E, then those under E.A, each list in *)
(* registration order, each entry once.                                   *)

\* C2 as claimed: every such request that ends has invoked exactly that sequence
C2_Original ==
    \A r \in Delivered :
        LET req == requests[r] IN
        (req.pc = "done" /\ Dispatched(req) /\ Truthy(req.action))
            => CalledFunctions(req) = Expected(req)

\* C2, amended: the handlers invoked are always a prefix of that sequence, as
\* long as the loop index says; they are the whole sequence when every handler
\* returned, and the prefix ending with the raising handler when one raised
C2_InvocationOrder ==
    \A r \in Delivered :
        LET req == requests[r] IN
        (Collected(req) /\ Truthy(req.action)) =>
            /\ req.functions_to_call = Expected(req)
            /\ IsPrefix(CalledFunctions(req), Expected(req))
            /\ req.pc = "loop" => Len(req.called) = req.i - 1
            /\ req.pc = "in_handler" => Len(req.called) = req.i
            /\ Completed(req) => CalledFunctions(req) = Expected(req)
            /\ (req.pc = "done" /\ req.exc = "HandlerError") => Len(req.called) = req.i

C2_Witness ==
    \E r \in Delivered :
        LET req == requests[r] IN
        /\ Completed(req)
        /\ Truthy(req.action)
        /\ TableList(req.event) # <<>>
        /\ Len(TableList(JoinDot(req.event, req.action))) >= 2
        /\ CalledFunctions(req) = Expected(req)

----------------------------------------------------------------------------
(* C3: the list of every key is the sequence of the handlers registered   *)
(* under that key, in registration order; a key is present exactly when   *)
(* something was registered under it.                                     *)

RECURSIVE RegisteredUnder(_, _)
RegisteredUnder(log, k) ==
    IF log = <<>> THEN <<>>
    ELSE LET rest == RegisteredUnder(SubSeq(log, 1, Len(log) - 1), k)
             last == log[Len(log)]
         IN  IF last[1] = k THEN Append(rest, last[2]) ELSE rest

C3_RegistrationOrder ==
    /\ DOMAIN hook_mappings = {reg_log[j][1] : j \in DOMAIN reg_log}
    /\ \A k \in Keys : TableList(k) = RegisteredUnder(reg_log, k)

C3_Witness ==
    /\ Len(reg_log) = 3
    /\ \E k \in Keys : Len(TableList(k)) = 2
    /\ Cardinality(DOMAIN hook_mappings) = 2

----------------------------------------------------------------------------
(* C4: a request without X-Hub-Signature, or whose header has no '=', is  *)
(* answered 400, a warning is logged and no handler is invoked.           *)

MalformedSignature(req) == ~HasDigest(req)

C4_Claim ==
    \A r \in Delivered :
        LET req == requests[r] IN
        (MalformedSignature(req) /\ ReachesVerification(req)) =>
            /\ req.called = <<>>
            /\ req.pc = "done" => req.response.status = 400 /\ req.warnings >= 1

----------------------------------------------------------------------------
(* C5: a request that passes verification and whose handlers all return   *)
(* is answered 200 "OK", also when no handler matched.                    *)

----------------------------------------------------------------------------
(* C7: when the body's action is absent, null or the empty string, only   *)
(* the handlers of the bare event key are collected and invoked.          *)

C7_BareKeyOnly ==
    \A r \in Delivered :
        LET req == requests[r] IN
        (Collected(req) /\ req.action \in {None, ""}) =>
            /\ req.functions_to_call = TableList(req.event)
            /\ IsPrefix(CalledFunctions(req), TableList(req.event))
            /\ Completed(req) => CalledFunctions(req) = TableList(req.event)

C7_Witness ==
    \E r \in Delivered :
        LET req == requests[r] IN
        /\ Completed(req)
        /\ req.body = BodyEmptyAction
        /\ req.action = ""
        /\ TableList(JoinDot(req.event, req.action)) # <<>>
        /\ TableList(req.event) # <<>>
        /\ CalledFunctions(req) = TableList(req.event)

----------------------------------------------------------------------------
(* C8: no step of a request changes the route table, whether the request  *)
(* is rejected, completes or fails.                                       *)

C8_TableUnchanged == [][requests' # requests => hook_mappings' = hook_mappings]_vars

C8_Witness ==
    /\ hook_mappings # <<>>
    /\ \E r \in Delivered :
        /\ requests[r].pc = "done"
        /\ requests[r].exc = "HandlerError"
        /\ Len(requests[r].called) < Len(Expected(requests[r]))

----------------------------------------------------------------------------
(* Verification alone: any configured secret, any body, a range of        *)
(* X-Hub-Signature headers; the request is taken as far as line 161.      *)

Sha1 == <<"s", "h", "a", "1">>

Upper(c) ==
    CASE c = "a" -> "A" [] c = "b" -> "B" [] c = "c" -> "C"
      [] c = "d" -> "D" [] c = "e" -> "E" [] c = "f" -> "F"
      [] OTHER -> c

UpperCase(s) == [j \in DOMAIN s |-> Upper(s[j])]

OtherSecret(cfg) ==
    IF cfg.GITHUBAPP_SECRET.value = "topsecret"
    THEN BytesSecret("other") ELSE BytesSecret("topsecret")

SigOptionsVerify(cfg, body) ==
    SigOptions(cfg, body) \cup
    { {Sig(<<"m", "d", "5">>, HexDigest(secret(cfg), body))},
      {Sig(Sha1, HexDigest(secret(cfg), body)) \o <<"=", "x">>},
      {Sig(Sha1, HexDigest(OtherSecret(cfg), body))},
      {Sig(Sha1, UpperCase(HexDigest(secret(cfg), body)))},
      {Sig(Sha1, <<>>)},
      {Sig(Sha1, HexDigest(secret(cfg), body) \o <<"0">>)} }

InitVerify ==
    /\ config \in {GoodConfig(s) : s \in Secrets}
    /\ app = init_app(config)
    /\ hook_mappings = <<>>
    /\ reg_log = <<>>
    /\ requests = [r \in Slots |-> NoRequest]
    /\ threads = [t \in Threads |-> [pc |-> "idle", event_action |-> None, f |-> None]]

NextVerify ==
    \/ /\ Quiet
       /\ \E r \in Slots, body \in Bodies :
            \E sig \in SigOptionsVerify(config, body) :
                Receive(r, MkHeaders({"issues"}, sig), body)
    \/ \E r \in Slots : Extract(r)
    \/ \E r \in Slots : Verify(r)
    \/ \E r \in Slots : Discard(r)

SpecVerify == InitVerify /\ [][NextVerify]_vars

\* line 161 was executed
Verified(req) == req.pc \notin {"idle", "received", "verifying"} /\ ReachesVerification(req)

Accepted(req) == req.pc = "lookup_event"

----------------------------------------------------------------------------
(* Registrations made from several threads: the decorator body runs one   *)
(* statement at a time, and a thread switch may fall between the test of  *)
(* line 145 and the store of line 146 or the append of line 148.          *)
(* Requests are served meanwhile.                                         *)

NoCall == [pc |-> "idle", event_action |-> None, f |-> None]

\* on(event_action)(f) is called: decorator(f) is entered
OnCall(t, event_action, f) ==
    /\ threads[t].pc = "idle"
    /\ threads' = [threads EXCEPT ![t] =
            [pc |-> "check", event_action |-> event_action, f |-> f]]
    /\ reg_log' = Append(reg_log, <<event_action, f>>)
    /\ UNCHANGED <<app, config, hook_mappings, requests>>

\* line 145
DecoratorCheck(t) ==
    /\ threads[t].pc = "check"
    /\ threads' = [threads EXCEPT ![t].pc =
            IF threads[t].event_action \notin DOMAIN hook_mappings
            THEN "assign" ELSE "append"]
    /\ UNCHANGED <<app, config, hook_mappings, reg_log, requests>>

\* line 146, then return f
DecoratorAssign(t) ==
    /\ threads[t].pc = "assign"
    /\ hook_mappings' = Extend(hook_mappings, threads[t].event_action, <<threads[t].f>>)
    /\ threads' = [threads EXCEPT ![t] = NoCall]
    /\ UNCHANGED <<app, config, reg_log, requests>>

\* line 148, then return f
DecoratorAppend(t) ==
    /\ threads[t].pc = "append"
    /\ hook_mappings' = [hook_mappings EXCEPT ![threads[t].event_action] =
                            Append(@, threads[t].f)]
    /\ threads' = [threads EXCEPT ![t] = NoCall]
    /\ UNCHANGED <<app, config, reg_log, requests>>

\* well-formed requests for the event "issues", signed or with another body's digest
ReceiveIssues(r) ==
    \E body \in {BodyOpened, BodyNoAction} :
        \E sig \in { {Sig(Sha1, HexDigest(secret(config), body))},
                     {Sig(Sha1, HexDigest(secret(config), OtherBody(body)))} } :
            Receive(r, MkHeaders({"issues"}, sig), body)

NextThreads ==
    \/ /\ Len(reg_log) < MaxRegsConc
       /\ \E t \in Threads, k \in Keys, f \in Handlers : OnCall(t, k, f)
    \/ \E t \in Threads : DecoratorCheck(t)
    \/ \E t \in Threads : DecoratorAssign(t)
    \/ \E t \in Threads : DecoratorAppend(t)
    \/ Quiet /\ \E r \in Slots : ReceiveIssues(r)
    \/ \E r \in Slots : Step(r)
    \/ \E r \in Slots : Discard(r)

SpecThreads == Init /\ [][NextThreads]_vars

Count(seq, x) == Cardinality({j \in DOMAIN seq : seq[j] = x})

(* C9: once all concurrent registrations have completed, every handler is *)
(* in its key's list as many times as it was registered under that key.   *)
C9_Claim ==
    (\A t \in Threads : threads[t].pc = "idle") =>
        \A k \in Keys, f \in Handlers :
            Count(TableList(k), f) = Count(reg_log, <<k, f>>)

----------------------------------------------------------------------------
(* Two requests served at once: their steps interleave freely; the        *)
(* registrations are made while no request is being served.               *)

NextConc ==
    \/ /\ Quiet
       /\ Len(reg_log) < MaxRegsConc
       /\ \E k \in Keys, f \in Handlers : Register(k, f)
    \/ \E r \in Slots : ReceiveIssues(r)
    \/ \E r \in Slots : Step(r)
    \/ \E r \in Slots : Discard(r)

SpecConc == Init /\ [][NextConc]_vars

(* C10: whatever the interleaving of two dispatches, each one collects    *)
(* and invokes the handler sequence of its own event and action, and      *)
(* every invocation is passed the request of its own dispatch.            *)
C10_DispatchesIndependent ==
    \A r \in Delivered :
        LET req == requests[r] IN
        /\ \A j \in DOMAIN req.called : req.called[j].request = r
        /\ Collected(req) =>
            /\ req.functions_to_call = Expected(req)
            /\ IsPrefix(CalledFunctions(req), Expected(req))
            /\ Completed(req) => CalledFunctions(req) = Expected(req)
        /\ req.pc = "lookup_action" => req.functions_to_call = TableList(req.event)

C10_Witness ==
    \E r1, r2 \in Delivered :
        /\ r1 # r2
        /\ requests[r1].pc = "in_handler"
        /\ requests[r2].pc = "in_handler"
        /\ requests[r1].functions_to_call # requests[r2].functions_to_call
        /\ requests[r1].called # <<>>
        /\ requests[r2].called # <<>>

----------------------------------------------------------------------------
(* Initialisation: init_app under every configuration, then the traffic
   the application serves *)

\* the configurations an application may be created with: each required
\* setting absent, empty or set; the route absent or set
IdOptions == {{}, {0}, {1}}
KeyOptions == {{}, {""}, {"key"}}
SecretOptions == {{}, {StrSecret("")}, {StrSecret("topsecret")}}
RouteOptions == {{}, {"/hook"}}

Setting(name, opt) == IF opt = {} THEN <<>> ELSE [n \in {name} |-> CHOOSE v \in opt : TRUE]

MkConfig(id, key, sec, route) ==
    Setting("GITHUBAPP_ID", id) @@ Setting("GITHUBAPP_KEY", key)
        @@ Setting("GITHUBAPP_SECRET", sec) @@ Setting("GITHUBAPP_ROUTE", route)

\* the hosting application hands a request to the view only through a route
Routed == \E route \in app.routes : route.handler = "_flask_view_func"

InitConfig ==
    /\ config \in {MkConfig(id, key, sec, route) :
                        id \in IdOptions, key \in KeyOptions,
                        sec \in SecretOptions, route \in RouteOptions}
    /\ app = NewApp
    /\ hook_mappings = <<>>
    /\ reg_log = <<>>
    /\ requests = [r \in Slots |-> NoRequest]
    /\ threads = [t \in Threads |-> [pc |-> "idle", event_action |-> None, f |-> None]]

NextConfig ==
    \/ InitApp
    \/ /\ Quiet
       /\ Len(reg_log) < MaxRegsConc
       /\ \E k \in Keys, f \in Handlers : Register(k, f)
    \/ /\ Routed
       /\ Quiet
       /\ \E r \in Slots : ReceiveIssues(r)
    \/ \E r \in Slots : Step(r)
    \/ \E r \in Slots : Discard(r)

SpecConfig == InitConfig /\ [][NextConfig]_vars

Present(setting) == setting \in DOMAIN config

AllSet == \A j \in DOMAIN required_settings : ~NotSet(config, required_settings[j])

\* C11: once init_app has run: if GITHUBAPP_ID, GITHUBAPP_KEY or
\* GITHUBAPP_SECRET is missing it raised and the application holds no route;
\* a route is held only when all three are present, and then it is the one
\* POST route to the view at GITHUBAPP_ROUTE, or at "/" when that is absent;
\* no request is delivered to the view without the route.
C11_RouteOnlyWhenConfigured ==
    /\ app.init = "new" => app.routes = {}
    /\ app.init # "new" =>
        /\ (\E s \in {"GITHUBAPP_ID", "GITHUBAPP_KEY", "GITHUBAPP_SECRET"} : ~Present(s))
                => app.init = "RuntimeError"
        /\ app.init = "RuntimeError" <=> ~AllSet
        /\ app.init = "RuntimeError" => app.routes = {}
        /\ app.init = "ok" =>
                app.routes = {[uri |-> IF Present("GITHUBAPP_ROUTE")
                                       THEN config["GITHUBAPP_ROUTE"] ELSE "/",
                               handler |-> "_flask_view_func",
                               methods |-> {"POST"}]}
    /\ Delivered # {} =>
            /\ app.routes # {}
            /\ \A s \in {"GITHUBAPP_ID", "GITHUBAPP_KEY", "GITHUBAPP_SECRET"} : Present(s)

\* init_app raised because only the secret is missing
C11_Witness ==
    /\ app.init = "RuntimeError"
    /\ app.routes = {}
    /\ Present("GITHUBAPP_ID") /\ config["GITHUBAPP_ID"] = 1
    /\ Present("GITHUBAPP_KEY") /\ config["GITHUBAPP_KEY"] = "key"
    /\ ~Present("GITHUBAPP_SECRET")

----------------------------------------------------------------------------
(* C12: a request without the X-GitHub-Event header is never dispatched   *)
(* and is not answered 200 "OK", whatever its signature.                  *)

NoEventHeader(req) == EventHeader \notin DOMAIN req.headers

\* C12: a request without the X-GitHub-Event header never gets past line 158:
\* no lookup is made for it, no handler is invoked, and when it has ended
\* it ended with the KeyError of line 158 and an answer that is not 200 "OK";
\* this is so with a matching digest as with any other signature header.
C12_NoEventNeverDispatched ==
    \A r \in Delivered :
        LET req == requests[r] IN
        NoEventHeader(req) =>
            /\ req.pc \in {"received", "done"}
            /\ ~Dispatched(req)
            /\ req.called = <<>>
            /\ req.functions_to_call = <<>>
            /\ req.response # OkResponse
            /\ req.response.status # 200
            /\ req.pc = "done" => req.exc = "KeyError"

\* such a request, with the matching digest and handlers registered for
\* other requests, has ended
C12_Witness ==
    \E r \in Delivered :
        LET req == requests[r] IN
        /\ NoEventHeader(req)
        /\ DigestMatches(req)
        /\ ParseJson(req.body).type = "dict"
        /\ hook_mappings # <<>>
        /\ req.pc = "done"
        /\ req.exc = "KeyError"
        /\ req.called = <<>>

----------------------------------------------------------------------------
(* C13: registration does not deduplicate.                                *)

\* the entries of f that a request's two keys hold
Matching(req, f) ==
    Count(TableList(req.event), f) +
        (IF Truthy(req.action) THEN Count(TableList(JoinDot(req.event, req.action)), f)
         ELSE 0)

\* C13 as stated: a verified request that has ended invoked every handler
\* as many times as it is registered under the request's keys
C13_Original ==
    \A r \in Delivered :
        LET req == requests[r] IN
        (req.pc = "done" /\ Dispatched(req)) =>
            \A f \in Handlers : Count(CalledFunctions(req), f) = Matching(req, f)

\* C13, amended: a key's list holds a handler as many times as it was
\* registered under the key, and a verified request whose handlers all
\* returned has invoked each handler as many times as its keys hold it; a
\* request that ended in a raising handler has invoked none more often
C13_NoDeduplication ==
    /\ \A k \in Keys, f \in Handlers : Count(TableList(k), f) = Count(reg_log, <<k, f>>)
    /\ \A r \in Delivered :
        LET req == requests[r] IN
        /\ Completed(req) =>
            \A f \in Handlers : Count(CalledFunctions(req), f) = Matching(req, f)
        /\ (req.pc = "done" /\ req.exc = "HandlerError") =>
            \A f \in Handlers : Count(CalledFunctions(req), f) <= Matching(req, f)

\* one handler registered three times under one key and invoked three times
\* by one request
C13_Witness ==
    \E r \in Delivered, k \in Keys, f \in Handlers :
        LET req == requests[r] IN
        /\ Completed(req)
        /\ Count(reg_log, <<k, f>>) = 3
        /\ Count(TableList(k), f) = 3
        /\ Count(CalledFunctions(req), f) = 3

----------------------------------------------------------------------------
(* C15: within one dispatch the handlers run one at a time, each on the   *)
(* request the endpoint received.                                         *)

\* C15: a handler is started only by the loop of its own request, at the
\* loop's position and while no handler of that request is running (the
\* handlers before it have returned); it is the function at that position, its
\* argument is the request the view received, and it is running afterwards.
C15_OneAtATime ==
    [][\A r \in Slots :
            Len(requests'[r].called) > Len(requests[r].called) =>
                /\ requests[r].pc = "loop"
                /\ Len(requests[r].called) = requests[r].i - 1
                /\ requests'[r].called =
                        Append(requests[r].called,
                               [function |-> requests[r].functions_to_call[requests[r].i],
                                request |-> r])
                /\ requests'[r].pc = "in_handler"
                /\ requests'[r].i = requests[r].i]_vars

\* the second handler of a request is running, the first has returned, and
\* the other request is in its own dispatch
C15_Witness ==
    \E r1, r2 \in Delivered :
        /\ r1 # r2
        /\ requests[r1].pc = "in_handler"
        /\ requests[r1].i = 2
        /\ Len(requests[r1].called) = 2
        /\ \A j \in DOMAIN requests[r1].called : requests[r1].called[j].request = r1
        /\ requests[r2].pc \in {"loop", "in_handler"}

----------------------------------------------------------------------------
(* C16: a raising handler ends the dispatch.                              *)

\* C16: when the k-th handler of a request has raised, the request has ended
\* with that error and an answer that is not 200 "OK"; the handlers invoked
\* are the first k of its sequence, each entry once, and none after the k-th.
C16_ErrorPropagates ==
    \A r \in Delivered :
        LET req == requests[r]
            k == req.i
        IN
        req.exc = "HandlerError" =>
            /\ req.pc = "done"
            /\ req.response # OkResponse
            /\ req.response.status # 200
            /\ k \in 1..Len(Expected(req))
            /\ CalledFunctions(req) = SubSeq(Expected(req), 1, k)

\* the second of three handlers raised: one ran before it, one is not invoked
C16_Witness ==
    \E r \in Delivered :
        LET req == requests[r] IN
        /\ req.pc = "done"
        /\ req.exc = "HandlerError"
        /\ req.i = 2
        /\ Len(req.called) = 2
        /\ Len(Expected(req)) = 3

----------------------------------------------------------------------------
(* Two requests verified side by side: their X-Hub-Signature headers are  *)
(* every prefix before the first '=' put before every text after it.      *)

Prefixes == {Sha1, <<"m", "d", "5">>, <<"S", "H", "A", "1">>, <<>>}

\* the text after the first '=': the right digest, the digest of another
\* body, the right digest and a further field, nothing, a digest that is
\* not ASCII
Rests(cfg, body) ==
    { HexDigest(secret(cfg), body),
      HexDigest(secret(cfg), OtherBody(body)),
      HexDigest(secret(cfg), body) \o <<"=", "x">>,
      <<>>,
      <<NonAsciiChar, "1">> }

NextPair ==
    \/ \E r \in Slots, body \in {BodyOpened, BodyNoAction} :
            \E prefix \in Prefixes, rest \in Rests(config, body) :
                Receive(r, MkHeaders({"issues"}, {Sig(prefix, rest)}), body)
    \/ \E r \in Slots : Extract(r)
    \/ \E r \in Slots : Verify(r)
    \/ \E r \in Slots : Discard(r)

SpecPair == InitVerify /\ [][NextPair]_vars

\* s has c in it
Has(s, c) == \E j \in DOMAIN s : s[j] = c

FirstIndex(s, c) == CHOOSE j \in DOMAIN s : s[j] = c /\ \A k \in 1..(j - 1) : s[k] # c

BeforeFirst(s, c) == SubSeq(s, 1, FirstIndex(s, c) - 1)

AfterFirst(s, c) == SubSeq(s, FirstIndex(s, c) + 1, Len(s))

\* C17: two verified requests with the same body whose X-Hub-Signature
\* headers have the same text after the first '=' have the same outcome under
\* the configured secret, whatever stands before the '=': both pass
\* verification, or both end with the same error, answer and warnings.
C17_PrefixIgnored ==
    \A r1, r2 \in Delivered :
        LET q1 == requests[r1]
            q2 == requests[r2]
            h1 == q1.headers[SignatureHeader]
            h2 == q2.headers[SignatureHeader]
        IN
        (/\ Verified(q1) /\ Verified(q2)
         /\ q1.body = q2.body
         /\ Has(h1, "=") /\ Has(h2, "=")
         /\ AfterFirst(h1, "=") = AfterFirst(h2, "=")) =>
            /\ Accepted(q1) <=> Accepted(q2)
            /\ q1.pc = q2.pc
            /\ q1.exc = q2.exc
            /\ q1.response = q2.response
            /\ q1.warnings = q2.warnings

\* "md5=" and "sha1=" before the right digest: both requests are accepted
C17_Witness ==
    \E r1, r2 \in Delivered :
        LET q1 == requests[r1]
            q2 == requests[r2]
        IN
        /\ Verified(q1) /\ Verified(q2)
        /\ q1.body = q2.body
        /\ BeforeFirst(q1.headers[SignatureHeader], "=") = <<"m", "d", "5">>
        /\ BeforeFirst(q2.headers[SignatureHeader], "=") = Sha1
        /\ AfterFirst(q1.headers[SignatureHeader], "=")
                = AfterFirst(q2.headers[SignatureHeader], "=")
        /\ Accepted(q1) /\ Accepted(q2)

\* an empty prefix and "sha1=" before the digest of another body: both rejected
C17_WitnessRejected ==
    \E r1, r2 \in Delivered :
        LET q1 == requests[r1]
            q2 == requests[r2]
        IN
        /\ Verified(q1) /\ Verified(q2)
        /\ q1.body = q2.body
        /\ BeforeFirst(q1.headers[SignatureHeader], "=") = <<>>
        /\ BeforeFirst(q2.headers[SignatureHeader], "=") = Sha1
        /\ AfterFirst(q1.headers[SignatureHeader], "=")
                = AfterFirst(q2.headers[SignatureHeader], "=")
        /\ q1.exc = "abort400" /\ q2.exc = "abort400"

----------------------------------------------------------------------------
(* C18: a handler is invoked only for its own (event, action) pair.       *)

\* event types and actions as GitHub names them: no "." in them
EventTypes == {"issues", "Issues", "push"}
ActionNames == {"opened", ""}

\* the key under which the j-th handler of the request was found: the
\* bare key's handlers come first (lines 163-169)
FoundUnder(req, j) ==
    IF j <= Len(TableList(req.event)) THEN req.event
    ELSE JoinDot(req.event, req.action)

(* C18: a handler registered under the compound key T.A is invoked only   *)
(* by a request with event type T and action A, and a handler registered  *)
(* under the bare key T only by a request with event type T.              *)
C18_Claim ==
    \A r \in Delivered :
        LET req == requests[r] IN
        \A j \in DOMAIN req.called :
            /\ \A T \in EventTypes, A \in ActionNames :
                    FoundUnder(req, j) = JoinDot(T, A) =>
                        req.event = T /\ req.action = A
            /\ \A T \in EventTypes :
                    FoundUnder(req, j) = T => req.event = T

\* what the lookups do guarantee: an invoked handler is an entry of the list
\* stored under the very string X-GitHub-Event, or under that string, "."
\* and a non-empty action; a string that differs in case selects nothing
C18_ExactStringKey ==
    \A r \in Delivered :
        LET req == requests[r] IN
        /\ \A j \in DOMAIN req.called :
            /\ FoundUnder(req, j) \in DOMAIN hook_mappings
            /\ FoundUnder(req, j) \in
                    {req.event} \cup
                    (IF Truthy(req.action) THEN {JoinDot(req.event, req.action)} ELSE {})
            /\ req.called[j].function \in
                    {hook_mappings[FoundUnder(req, j)][n] :
                        n \in DOMAIN hook_mappings[FoundUnder(req, j)]}
        /\ req.event \in {"Issues", "push"} => req.called = <<>>

\* X-GitHub-Event: issues.opened, no action: the handler registered under
\* "issues.opened" for (issues, opened) is invoked
C18_Witness ==
    \E r \in Delivered :
        LET req == requests[r] IN
        /\ req.event = "issues.opened"
        /\ req.action = None
        /\ req.called # <<>>
        /\ FoundUnder(req, 1) = JoinDot("issues", "opened")

----------------------------------------------------------------------------
(* C14: the states a request goes through.                                *)

\* the state of the request in a slot; "none" is a free slot, and "error"
\* is a request ended by an exception other than the abort(400) of line 183
\* or a handler's
State(req) ==
    CASE req.pc = "idle" -> "none"
      [] req.pc = "received" -> "received"
      [] req.pc = "verifying" -> "verifying"
      [] req.pc \in {"lookup_event", "lookup_action", "loop", "in_handler"} -> "dispatching"
      [] req.pc = "done" /\ req.exc = "" -> "completed"
      [] req.pc = "done" /\ req.exc = "HandlerError" -> "failed"
      [] req.pc = "done" /\ req.exc = "abort400" -> "rejected"
      [] OTHER -> "error"

\* the steps of received -> verifying -> {rejected | dispatching} ->
\* {completed | failed}; a free slot takes a new request, and a request that
\* has ended is dropped, which is no step of the request
MachineSteps ==
    { <<"none", "received">>,
      <<"received", "verifying">>,
      <<"verifying", "rejected">>,
      <<"verifying", "dispatching">>,
      <<"dispatching", "completed">>,
      <<"dispatching", "failed">>,
      <<"rejected", "none">>,
      <<"completed", "none">>,
      <<"failed", "none">> }

\* what the code adds: an exception while the event and the action are
\* read, or while the signature header is taken apart and compared
ErrorSteps ==
    { <<"received", "error">>,
      <<"verifying", "error">>,
      <<"error", "none">> }

(* C14: every request moves received -> verifying -> {rejected |           *)
(* dispatching} -> {completed | failed}: dispatching is entered only from  *)
(* verifying, when verification passes, rejected only from verifying, when *)
(* it fails, completed and failed only from dispatching, and no step       *)
(* leaves rejected, completed or failed.                                   *)
C14_Claim ==
    [][\A r \in Slots :
            LET old == State(requests[r])
                new == State(requests'[r])
            IN
            old # new =>
                /\ <<old, new>> \in MachineSteps
                /\ (old = "verifying" /\ new = "dispatching") =>
                        _verify_webhook(config, requests[r].headers, requests[r].body) = "ok"
                /\ (old = "verifying" /\ new = "rejected") =>
                        _verify_webhook(config, requests[r].headers, requests[r].body) # "ok"]_vars

\* the same with the error state: these are all the steps the code takes
C14_StepsWithError ==
    [][\A r \in Slots :
            LET old == State(requests[r])
                new == State(requests'[r])
            IN
            old # new =>
                /\ <<old, new>> \in MachineSteps \cup ErrorSteps
                /\ (old = "verifying" /\ new = "dispatching") =>
                        _verify_webhook(config, requests[r].headers, requests[r].body) = "ok"
                /\ (old = "verifying" /\ new \in {"rejected", "error"}) =>
                        _verify_webhook(config, requests[r].headers, requests[r].body) # "ok"
                /\ (old = "received" /\ new = "error") =>
                        ~ReachesVerification(requests[r])]_vars

\* a request without X-GitHub-Event has ended: it never was in verifying,
\* and it is not rejected, completed or failed
C14_Witness ==
    \E r \in Delivered :
        /\ State(requests[r]) = "error"
        /\ NoEventHeader(requests[r])
        /\ requests[r].response.status = 500

\* the view function runs on once it is called, and a handler that was
\* started returns or raises
SpecFair == Spec /\ \A r \in Slots : WF_vars(Step(r))

\* every request that was received ends: rejected, completed, failed, or in
\* the error state
C14_Ends ==
    \A r \in Slots :
        (State(requests[r]) = "received") ~>
            (State(requests[r]) \in {"rejected", "completed", "failed", "error"})

=============================================================================
